---- MODULE Spec2Model ----
(***************************************************************************)
(* State-machine model of the ANYTIME contest backend: the three app       *)
(* variants (backend/main.py, backend/main_sheets.py,                      *)
(* backend/main_supabase.py), their request validator, storage adapters,   *)
(* startup selection and per-call fallback.                                *)
(*                                                                         *)
(* Strings are sequences of one-character strings, so that strip(),        *)
(* lower(), len() and "'@' in v" are computed as Python computes them.     *)
(***************************************************************************)
EXTENDS Integers, Sequences, FiniteSets, TLC

\* ------------------------------------------------------------- bounds
MaxSubs == 2        \* submissions accepted for storage in one run
MaxClock == 1       \* datetime.now() returns a tick in 0..MaxClock
MaxInflight == 2    \* spreadsheet POSTs awaiting their response at once
MaxLimit == 1       \* list_submissions(limit) is called with limit in 0..MaxLimit
MaxValidated == 1   \* submissions accepted in a run of the validator's specification

\* ------------------------------------------------- program constants
DEFAULT_LIMIT == 1000

VARIABLES
    app,                \* which module serves: "main" | "sheets" | "supabase"
    cfg,                \* environment variables and what the outside world would do
    phase,              \* "init" | "serving" | "failed" (startup hook raised)
    storage_backend,    \* app.state.storage_backend ("unset" until the hook sets it)
    supabase,           \* module global: client constructed
    postgres_pool,      \* module global: pool constructed
    in_memory_storage,  \* module global list
    supabase_table,     \* rows of the hosted table 'submissions'
    sheet_rows,         \* rows appended to the spreadsheet
    postgres_table,     \* rows of the relational table 'submissions'
    now,                \* last value datetime.now() returned
    inflight,           \* spreadsheet appends suspended at `await client.post`
    req,                \* body of the last POST /submit that was handled
    resp,               \* last response produced
    call,               \* history of the last completed insert call
    nOk                 \* history: POST /submit answered 200 so far

vars == <<app, cfg, phase, storage_backend, supabase, postgres_pool,
          in_memory_storage, supabase_table, sheet_rows, postgres_table,
          now, inflight, req, resp, call, nOk>>

\* ------------------------------------------------------------ strings
IsSpace(c) == c = " "

RECURSIVE LStrip(_)
LStrip(s) == IF s = <<>> THEN s
             ELSE IF IsSpace(Head(s)) THEN LStrip(Tail(s)) ELSE s

RECURSIVE RStrip(_)
RStrip(s) == IF s = <<>> THEN s
             ELSE IF IsSpace(s[Len(s)]) THEN RStrip(SubSeq(s, 1, Len(s) - 1)) ELSE s

\* str.strip()
Strip(s) == RStrip(LStrip(s))

LowerChar(c) == CASE c = "A" -> "a"
                  [] c = "B" -> "b"
                  [] c = "S" -> "s"
                  [] OTHER -> c

\* str.lower()
Lower(s) == [i \in 1..Len(s) |-> LowerChar(s[i])]

\* c in s
Contains(s, c) == \E i \in 1..Len(s) : s[i] = c

\* code points, for comparing strings as the stores and Python compare them
Ord(c) == CASE c = " " -> 32
            [] c = "0" -> 48 [] c = "1" -> 49 [] c = "2" -> 50 [] c = "3" -> 51
            [] c = "4" -> 52 [] c = "5" -> 53 [] c = "6" -> 54 [] c = "7" -> 55
            [] c = "8" -> 56 [] c = "9" -> 57
            [] c = "T" -> 84
            [] OTHER -> 97

RECURSIVE StrLeq(_, _)
StrLeq(a, b) == IF a = <<>> THEN TRUE
                ELSE IF b = <<>> THEN FALSE
                ELSE IF Ord(Head(a)) < Ord(Head(b)) THEN TRUE
                ELSE IF Ord(Head(a)) > Ord(Head(b)) THEN FALSE
                ELSE StrLeq(Tail(a), Tail(b))

Digit(d) == CASE d = 0 -> "0" [] d = 1 -> "1" [] d = 2 -> "2" [] d = 3 -> "3"
              [] d = 4 -> "4" [] d = 5 -> "5" [] d = 6 -> "6" [] d = 7 -> "7"
              [] d = 8 -> "8" [] OTHER -> "9"

\* datetime.isoformat() of tick t
Iso(t) == <<"T", Digit(t)>>

\* f"sub_{datetime.now().strftime('%Y%m%d_%H%M%S%f')}" of tick t
SubId(t) == <<"s", "u", "b", "_", Digit(t)>>

\* to_char(timestamp, 'YYYY-MM-DD HH24:MI:SS'): the separator becomes a blank
PgToChar(ts) == IF ts = <<>> THEN ts ELSE <<" ">> \o Tail(ts)

\* ----------------------------------------------------- request bodies
\* A JSON value of a field: absent, null, a string, a number (its digits), a list.
Missing == [k |-> "missing", v |-> <<>>]
Null == [k |-> "null", v |-> <<>>]
Str(s) == [k |-> "str", v |-> s]
Num(s) == [k |-> "num", v |-> s]
Arr == [k |-> "list", v |-> <<>>]

EmptyPayload == [name |-> Missing, email |-> Missing, answer |-> Missing,
                 timestamp |-> Missing]

NullPayload == [name |-> Null, email |-> Null, answer |-> Null, timestamp |-> Null]

\* ParseBody whose last resort yields an object of nulls instead of {}.
ParseBody_nulls(body) ==
    CASE body.shape = "json" -> body.payload
      [] body.shape = "form" ->
            [f \in DOMAIN body.payload |->
                IF body.payload[f].k = "missing" THEN Missing
                ELSE Str(body.payload[f].v)]
      [] body.shape = "garbage" -> NullPayload
      [] OTHER -> EmptyPayload

\* The body sniffing of submit_contest_entry: request.json(), else request.form(),
\* else json.loads(body); anything that is no dict becomes {}.
ParseBody(body) ==
    CASE body.shape = "json" -> body.payload
      [] body.shape = "form" ->
            [f \in DOMAIN body.payload |->
                IF body.payload[f].k = "missing" THEN Missing
                ELSE Str(body.payload[f].v)]
      [] OTHER -> EmptyPayload

\* ---------------------------------------------------------- validator
Fields == <<"name", "email", "answer", "timestamp">>

\* pydantic v1 str coercion: str stays, int/float become str(v)
Coercible(fv) == fv.k \in {"str", "num"}

\* The custom validator of a required field, on the coerced string.
RuleFails(f, v) ==
    CASE f = "name" -> v = <<>> \/ Len(Strip(v)) < 2
      [] f = "email" -> v = <<>> \/ ~Contains(v, "@")
      [] f = "answer" -> v = <<>> \/ Len(Strip(v)) < 5
      [] OTHER -> FALSE

\* FieldError with the length rules applied to the raw string: the strip()
\* left out of the validators' length checks.
FieldError_unstripped(f, fv) ==
    IF f = "timestamp"
    THEN IF fv.k \in {"missing", "null"} \/ Coercible(fv) THEN "" ELSE "type_error.str"
    ELSE CASE fv.k = "missing" -> "value_error.missing"
           [] fv.k = "null" -> "type_error.none.not_allowed"
           [] fv.k = "list" -> "type_error.str"
           [] OTHER -> IF \/ f = "name" /\ Len(fv.v) < 2
                          \/ f = "email" /\ ~Contains(fv.v, "@")
                          \/ f = "answer" /\ Len(fv.v) < 5
                       THEN "value_error" ELSE ""

\* The error type pydantic reports for one field, "" when the field passes.
FieldError(f, fv) ==
    IF f = "timestamp"
    THEN IF fv.k \in {"missing", "null"} \/ Coercible(fv) THEN "" ELSE "type_error.str"
    ELSE CASE fv.k = "missing" -> "value_error.missing"
           [] fv.k = "null" -> "type_error.none.not_allowed"
           [] fv.k = "list" -> "type_error.str"
           [] OTHER -> IF RuleFails(f, fv.v) THEN "value_error" ELSE ""

RECURSIVE ErrorsFrom(_, _)
ErrorsFrom(payload, i) ==
    IF i > Len(Fields) THEN <<>>
    ELSE LET f == Fields[i]
             e == FieldError(f, payload[f])
         IN (IF e = "" THEN <<>> ELSE <<[loc |-> f, type |-> e]>>)
            \o ErrorsFrom(payload, i + 1)

\* ve.errors() of ContestSubmission(**payload)
ValidationErrors(payload) == ErrorsFrom(payload, 1)

\* Optional[str]
None == [some |-> FALSE, v |-> <<>>]
Some(s) == [some |-> TRUE, v |-> s]
Truthy(o) == o.some /\ o.v # <<>>

\* ContestSubmission whose validators return v as received instead of the
\* stripped (and lowercased) value.
ContestSubmission_raw(payload) ==
    [name |-> payload.name.v,
     email |-> payload.email.v,
     answer |-> payload.answer.v,
     timestamp |-> IF payload.timestamp.k \in {"missing", "null"} THEN None
                   ELSE Some(payload.timestamp.v)]

\* The model instance a passing payload yields.
ContestSubmission(payload) ==
    [name |-> Strip(payload.name.v),
     email |-> Lower(Strip(payload.email.v)),
     answer |-> Strip(payload.answer.v),
     timestamp |-> IF payload.timestamp.k \in {"missing", "null"} THEN None
                   ELSE Some(payload.timestamp.v)]

\* ------------------------------------------------------ configuration
\* os.getenv('STORAGE_BACKEND', 'supabase').lower(): the raw value is "unset" when
\* the variable is absent.
EnvLower(x) == CASE x = "Supabase" -> "supabase"
                 [] x = "SHEETS" -> "sheets"
                 [] OTHER -> x

STORAGE_BACKEND(c) == IF c.backend = "unset" THEN "supabase" ELSE EnvLower(c.backend)

BackendValues == {"unset", "supabase", "Supabase", "sheets", "SHEETS", "postgres", "memory"}

\* Every configuration: the raw STORAGE_BACKEND, which libraries import, which
\* credentials are set (non-empty), and whether create_client / ConnectionPool
\* would succeed (sb_ok, pg_ok).
AllConfigs ==
    [backend : BackendValues,
     sb_lib : BOOLEAN, sb_url : BOOLEAN, sb_key : BOOLEAN, sb_ok : BOOLEAN,
     gs_key : BOOLEAN, gs_id : BOOLEAN,
     pg_lib : BOOLEAN, db_url : BOOLEAN, pg_ok : BOOLEAN]

Config(b, sb, gs, pg) ==
    [backend |-> b,
     sb_lib |-> sb, sb_url |-> sb, sb_key |-> sb, sb_ok |-> sb,
     gs_key |-> gs, gs_id |-> gs,
     pg_lib |-> pg, db_url |-> pg, pg_ok |-> pg]

\* init_storage with the spreadsheet branch testing the API key alone.
init_storage_key_only(c) ==
    IF STORAGE_BACKEND(c) = "supabase" /\ c.sb_lib /\ c.sb_url /\ c.sb_key /\ c.sb_ok
    THEN [backend |-> "supabase", supabase |-> TRUE, postgres_pool |-> FALSE]
    ELSE IF STORAGE_BACKEND(c) = "sheets" /\ c.gs_key
    THEN [backend |-> "sheets", supabase |-> FALSE, postgres_pool |-> FALSE]
    ELSE IF STORAGE_BACKEND(c) = "postgres" /\ c.pg_lib /\ c.db_url /\ c.pg_ok
    THEN [backend |-> "postgres", supabase |-> FALSE, postgres_pool |-> TRUE]
    ELSE [backend |-> "memory", supabase |-> FALSE, postgres_pool |-> FALSE]

\* init_storage(): the selection and the globals it leaves behind.
init_storage(c) ==
    IF STORAGE_BACKEND(c) = "supabase" /\ c.sb_lib /\ c.sb_url /\ c.sb_key /\ c.sb_ok
    THEN [backend |-> "supabase", supabase |-> TRUE, postgres_pool |-> FALSE]
    ELSE IF STORAGE_BACKEND(c) = "sheets" /\ c.gs_key /\ c.gs_id
    THEN [backend |-> "sheets", supabase |-> FALSE, postgres_pool |-> FALSE]
    ELSE IF STORAGE_BACKEND(c) = "postgres" /\ c.pg_lib /\ c.db_url /\ c.pg_ok
    THEN [backend |-> "postgres", supabase |-> FALSE, postgres_pool |-> TRUE]
    ELSE [backend |-> "memory", supabase |-> FALSE, postgres_pool |-> FALSE]

\* main_supabase.init_supabase(): raises without credentials or when
\* create_client raises; the startup hook does not catch it.
init_supabase(c) == c.sb_url /\ c.sb_key /\ c.sb_ok

\* getattr(app.state, 'storage_backend', 'memory')
CurrentStorage == IF storage_backend = "unset" THEN "memory" ELSE storage_backend

\* -------------------------------------------------------------- clock
\* A call of datetime.now() after one that returned t: the same value or a later
\* one. Only the order and the equality of readings matter to the program, so a
\* later reading is the next tick.
Reads(t) == {u \in t..(t + 1) : u <= MaxClock}

\* ----------------------------------------------------------- responses
NoCall == [adapter |-> "none", raised |-> FALSE, wrote |-> FALSE, mem |-> FALSE,
           aid |-> <<>>, mid |-> <<>>]

NoBody == [shape |-> "none", payload |-> EmptyPayload]

Response(op, st) ==
    [op |-> op, status |-> st, id |-> <<>>, total |-> 0, subs |-> <<>>,
     storage |-> "", db |-> "", errors |-> <<>>, limit |-> 0, failed |-> FALSE]

\* ------------------------------------------------------------ adapters
\* data.timestamp or datetime.now().isoformat()
TimestampOr(data, t) == IF Truthy(data.timestamp) THEN data.timestamp.v ELSE Iso(t)

Row(data, t) ==
    [id |-> SubId(t), name |-> data.name, email |-> data.email,
     answer |-> data.answer, timestamp |-> TimestampOr(data, t)]

\* COALESCE(%s, NOW())
PgRow(data, t) ==
    [id |-> SubId(t), name |-> data.name, email |-> data.email,
     answer |-> data.answer,
     timestamp |-> IF data.timestamp.some THEN data.timestamp.v ELSE Iso(t)]

MemRecord(data, t) ==
    [id |-> SubId(t), name |-> data.name, email |-> data.email,
     answer |-> data.answer, timestamp |-> TimestampOr(data, t),
     storage_method |-> "memory"]

HasId(table, id) == \E i \in 1..Len(table) : table[i].id = id

\* What the outside store may do with one write: "ok"; "fail" (nothing written,
\* the call raises); "written_raise" (the write reached the store, and the call
\* still raises: an empty result.data, a response that raise_for_status rejects
\* or that is lost). The hosted table's id is its primary key
\* (test_storage.py: "id (TEXT PRIMARY KEY)"), so a duplicate id is refused.
WriteOutcomes == {"ok", "fail", "written_raise"}

\* insert_submission_memory putting the record at the head of the list
\* (in_memory_storage.insert(0, ...)) instead of appending it.
insert_submission_memory_prepend(data, t) ==
    [id |-> SubId(t), store |-> <<MemRecord(data, t)>> \o in_memory_storage]

\* insert_submission_memory(data), the clock returning t
insert_submission_memory(data, t) ==
    [id |-> SubId(t), store |-> Append(in_memory_storage, MemRecord(data, t))]

\* insert_submission_supabase(data), the clock returning t, the store doing out
insert_submission_supabase(data, t, out) ==
    IF ~supabase
    THEN [ran |-> FALSE, raised |-> TRUE, wrote |-> FALSE, id |-> <<>>,
          table |-> supabase_table]
    ELSE LET written == out \in {"ok", "written_raise"}
         IN [ran |-> TRUE, raised |-> out # "ok", wrote |-> written, id |-> SubId(t),
             table |-> IF written THEN Append(supabase_table, Row(data, t))
                       ELSE supabase_table]

\* insert_submission_postgres(data): the INSERT and the commit are one transaction
insert_submission_postgres(data, t, out) ==
    IF ~postgres_pool
    THEN [ran |-> FALSE, raised |-> TRUE, wrote |-> FALSE, id |-> <<>>,
          table |-> postgres_table]
    ELSE [ran |-> TRUE, raised |-> out # "ok", wrote |-> out = "ok", id |-> SubId(t),
          table |-> IF out = "ok" THEN Append(postgres_table, PgRow(data, t))
                    ELSE postgres_table]

\* insert_submission_sheets(data) up to its `await client.post`: the id is
\* generated before the request is sent; without credentials it raises at once.
SheetsConfigured == cfg.gs_key /\ cfg.gs_id

\* The row a spreadsheet append writes, and whether the call raises.
sheets_post(data, t, out) ==
    LET written == out \in {"ok", "written_raise"}
    IN [raised |-> out # "ok", wrote |-> written, id |-> SubId(t),
        table |-> IF written THEN Append(sheet_rows, Row(data, t)) ELSE sheet_rows]

\* insert_submission whose fallback returns the id the failed adapter generated
\* instead of the in-memory adapter's.
insert_submission_adapter_id(data, t1, t2, out) ==
    LET cur == CurrentStorage
        a == CASE cur = "supabase" -> insert_submission_supabase(data, t1, out)
               [] cur = "postgres" -> insert_submission_postgres(data, t1, out)
               [] OTHER -> [ran |-> FALSE, raised |-> TRUE, wrote |-> FALSE,
                            id |-> <<>>, table |-> <<>>]
        direct == insert_submission_memory(data, t1)
        fb == insert_submission_memory(data, t2)
    IN IF cur \notin {"supabase", "sheets", "postgres"}
       THEN [id |-> direct.id, exc |-> FALSE, mem |-> direct.store,
             sb |-> supabase_table, pg |-> postgres_table, last |-> t1,
             call |-> [adapter |-> "memory", raised |-> FALSE, wrote |-> FALSE,
                       mem |-> TRUE, aid |-> <<>>, mid |-> direct.id]]
       ELSE [id |-> a.id, exc |-> FALSE,
             mem |-> IF a.raised THEN fb.store ELSE in_memory_storage,
             sb |-> IF cur = "supabase" THEN a.table ELSE supabase_table,
             pg |-> IF cur = "postgres" THEN a.table ELSE postgres_table,
             last |-> IF a.raised THEN t2 ELSE t1,
             call |-> [adapter |-> cur, raised |-> a.raised, wrote |-> a.wrote,
                       mem |-> a.raised, aid |-> a.id,
                       mid |-> IF a.raised THEN fb.id ELSE <<>>]]

\* insert_submission whose except branch calls the selected adapter a second
\* time before it falls back to memory.
insert_submission_retrying(data, t1, t2, out) ==
    LET cur == CurrentStorage
        a == CASE cur = "supabase" -> insert_submission_supabase(data, t1, out)
               [] cur = "postgres" -> insert_submission_postgres(data, t1, out)
               [] OTHER -> [ran |-> FALSE, raised |-> TRUE, wrote |-> FALSE,
                            id |-> <<>>, table |-> <<>>]
        again == IF a.wrote THEN Append(a.table, Row(data, t2)) ELSE a.table
        direct == insert_submission_memory(data, t1)
        fb == insert_submission_memory(data, t2)
    IN IF cur \notin {"supabase", "sheets", "postgres"}
       THEN [id |-> direct.id, exc |-> FALSE, mem |-> direct.store,
             sb |-> supabase_table, pg |-> postgres_table, last |-> t1,
             call |-> [adapter |-> "memory", raised |-> FALSE, wrote |-> FALSE,
                       mem |-> TRUE, aid |-> <<>>, mid |-> direct.id]]
       ELSE IF a.raised
       THEN [id |-> fb.id, exc |-> FALSE, mem |-> fb.store,
             sb |-> IF cur = "supabase" THEN again ELSE supabase_table,
             pg |-> IF cur = "postgres" THEN again ELSE postgres_table,
             last |-> t2,
             call |-> [adapter |-> cur, raised |-> TRUE, wrote |-> a.wrote,
                       mem |-> TRUE, aid |-> a.id, mid |-> fb.id]]
       ELSE [id |-> a.id, exc |-> FALSE, mem |-> in_memory_storage,
             sb |-> IF cur = "supabase" THEN a.table ELSE supabase_table,
             pg |-> IF cur = "postgres" THEN a.table ELSE postgres_table,
             last |-> t1,
             call |-> [adapter |-> cur, raised |-> FALSE, wrote |-> a.wrote,
                       mem |-> FALSE, aid |-> a.id, mid |-> <<>>]]

\* main.insert_submission(data) for a selection that does not suspend (supabase,
\* postgres, memory, or sheets without credentials): t1 is the clock at the
\* selected adapter's id, t2 the clock at the fallback's id. exc: an exception
\* leaves insert_submission.
insert_submission(data, t1, t2, out) ==
    LET cur == CurrentStorage
        a == CASE cur = "supabase" -> insert_submission_supabase(data, t1, out)
               [] cur = "postgres" -> insert_submission_postgres(data, t1, out)
               [] OTHER -> [ran |-> FALSE, raised |-> TRUE, wrote |-> FALSE,
                            id |-> <<>>, table |-> <<>>]
        direct == insert_submission_memory(data, t1)
        fb == insert_submission_memory(data, t2)
    IN IF cur \notin {"supabase", "sheets", "postgres"}
       THEN [id |-> direct.id, exc |-> FALSE, mem |-> direct.store,
             sb |-> supabase_table, pg |-> postgres_table, last |-> t1,
             call |-> [adapter |-> "memory", raised |-> FALSE, wrote |-> FALSE,
                       mem |-> TRUE, aid |-> <<>>, mid |-> direct.id]]
       ELSE IF a.raised
       THEN [id |-> fb.id, exc |-> FALSE, mem |-> fb.store,
             sb |-> IF cur = "supabase" THEN a.table ELSE supabase_table,
             pg |-> IF cur = "postgres" THEN a.table ELSE postgres_table,
             last |-> t2,
             call |-> [adapter |-> cur, raised |-> TRUE, wrote |-> a.wrote,
                       mem |-> TRUE, aid |-> a.id, mid |-> fb.id]]
       ELSE [id |-> a.id, exc |-> FALSE, mem |-> in_memory_storage,
             sb |-> IF cur = "supabase" THEN a.table ELSE supabase_table,
             pg |-> IF cur = "postgres" THEN a.table ELSE postgres_table,
             last |-> t1,
             call |-> [adapter |-> cur, raised |-> FALSE, wrote |-> a.wrote,
                       mem |-> FALSE, aid |-> a.id, mid |-> <<>>]]

\* insert_submission_resumed whose fallback writes its record over the last
\* one of the list instead of appending it: the update another task made while
\* this one was suspended is lost.
insert_submission_resumed_lost_update(task, t2, out) ==
    LET a == sheets_post(task.data, task.t, out)
        n == Len(in_memory_storage)
        rec == MemRecord(task.data, t2)
    IN IF a.raised
       THEN [id |-> SubId(t2), exc |-> FALSE,
             mem |-> IF n = 0 THEN <<rec>> ELSE [in_memory_storage EXCEPT ![n] = rec],
             sheet |-> a.table, last |-> t2,
             call |-> [adapter |-> "sheets", raised |-> TRUE, wrote |-> a.wrote,
                       mem |-> TRUE, aid |-> a.id, mid |-> SubId(t2)]]
       ELSE [id |-> a.id, exc |-> FALSE, mem |-> in_memory_storage, sheet |-> a.table,
             last |-> now,
             call |-> [adapter |-> "sheets", raised |-> FALSE, wrote |-> a.wrote,
                       mem |-> FALSE, aid |-> a.id, mid |-> <<>>]]

\* main.insert_submission(data) resumed after the spreadsheet POST of a task that
\* generated its id at task.t: t2 is the clock at the fallback's id.
insert_submission_resumed(task, t2, out) ==
    LET a == sheets_post(task.data, task.t, out)
        fb == insert_submission_memory(task.data, t2)
    IN IF a.raised
       THEN [id |-> fb.id, exc |-> FALSE, mem |-> fb.store, sheet |-> a.table,
             last |-> t2,
             call |-> [adapter |-> "sheets", raised |-> TRUE, wrote |-> a.wrote,
                       mem |-> TRUE, aid |-> a.id, mid |-> fb.id]]
       ELSE [id |-> a.id, exc |-> FALSE, mem |-> in_memory_storage, sheet |-> a.table,
             last |-> now,
             call |-> [adapter |-> "sheets", raised |-> FALSE, wrote |-> a.wrote,
                       mem |-> FALSE, aid |-> a.id, mid |-> <<>>]]

\* insert_submission_sheets_resumed with append_to_google_sheets letting the
\* POST's exception through instead of returning False.
insert_submission_sheets_raising(task, t2, out) ==
    LET a == sheets_post(task.data, task.t, out)
    IN [id |-> SubId(t2), exc |-> a.raised, mem |-> in_memory_storage,
        sheet |-> a.table, last |-> t2,
        call |-> [adapter |-> "sheets", raised |-> a.raised, wrote |-> a.wrote,
                  mem |-> FALSE, aid |-> a.id, mid |-> <<>>]]

\* main_sheets.insert_submission(data) resumed after append_to_google_sheets's
\* POST: append_to_google_sheets turns every exception into False; on True the
\* function formats a new id from the clock (t2), on False store_in_memory does.
insert_submission_sheets_resumed(task, t2, out) ==
    LET a == sheets_post(task.data, task.t, out)
        fb == insert_submission_memory(task.data, t2)
    IN IF a.raised
       THEN [id |-> fb.id, exc |-> FALSE, mem |-> fb.store, sheet |-> a.table,
             last |-> t2,
             call |-> [adapter |-> "sheets", raised |-> TRUE, wrote |-> a.wrote,
                       mem |-> TRUE, aid |-> a.id, mid |-> fb.id]]
       ELSE [id |-> SubId(t2), exc |-> FALSE, mem |-> in_memory_storage,
             sheet |-> a.table, last |-> t2,
             call |-> [adapter |-> "sheets", raised |-> FALSE, wrote |-> a.wrote,
                       mem |-> FALSE, aid |-> a.id, mid |-> <<>>]]

\* main_supabase.insert_submission(data): logs and re-raises.
insert_submission_supabase_app(data, t, out) ==
    LET written == out \in {"ok", "written_raise"}
    IN [id |-> SubId(t), exc |-> out # "ok",
        sb |-> IF written THEN Append(supabase_table, Row(data, t)) ELSE supabase_table,
        last |-> t,
        call |-> [adapter |-> "supabase", raised |-> out # "ok", wrote |-> written,
                  mem |-> FALSE, aid |-> SubId(t), mid |-> <<>>]]

\* --------------------------------------------------------------- reads
\* Python's s[-n:] for n >= 0: -0 is 0, so s[-0:] is the whole list.
LastN(s, n) == IF n = 0 \/ n >= Len(s) THEN s
               ELSE SubSeq(s, Len(s) - n + 1, Len(s))

\* SQL LIMIT n / .limit(n)
FirstN(s, n) == IF n >= Len(s) THEN s ELSE SubSeq(s, 1, n)

\* in_memory_storage[-limit:] if in_memory_storage else []
MemorySlice(limit) == IF in_memory_storage = <<>> THEN <<>>
                      ELSE LastN(in_memory_storage, limit)

\* ORDER BY timestamp DESC: every order of the rows with timestamps
\* non-increasing (the order among equal timestamps is the store's choice).
DescOrders(table) ==
    LET n == Len(table)
    IN {p \in [1..n -> 1..n] :
          /\ \A i, j \in 1..n : i # j => p[i] # p[j]
          /\ \A i \in 1..n : i < n =>
                StrLeq(table[p[i + 1]].timestamp, table[p[i]].timestamp)}

Listed(table, p, method, fmt) ==
    [i \in 1..Len(table) |->
        [id |-> table[p[i]].id, name |-> table[p[i]].name,
         email |-> table[p[i]].email, answer |-> table[p[i]].answer,
         timestamp |-> IF fmt THEN PgToChar(table[p[i]].timestamp)
                       ELSE table[p[i]].timestamp,
         storage_method |-> method]]

\* count_submissions whose last branch counts the hosted table's rows instead
\* of the in-memory list.
count_submissions_wrong_store(ok) ==
    LET cur == CurrentStorage
    IN IF cur = "postgres" /\ postgres_pool
       THEN IF ok THEN Len(postgres_table) ELSE Len(in_memory_storage)
       ELSE IF ok THEN Len(supabase_table) ELSE Len(in_memory_storage)

\* main.count_submissions(): ok is whether the store answers
count_submissions(ok) ==
    LET cur == CurrentStorage
    IN IF cur = "supabase" /\ supabase
       THEN IF ok THEN Len(supabase_table) ELSE Len(in_memory_storage)
       ELSE IF cur = "postgres" /\ postgres_pool
       THEN IF ok THEN Len(postgres_table) ELSE Len(in_memory_storage)
       ELSE Len(in_memory_storage)

\* `current_storage == 'supabase' and supabase` or `== 'postgres' and
\* postgres_pool`: the read goes to an outside store, and may raise.
Probed == \/ CurrentStorage = "supabase" /\ supabase
          \/ CurrentStorage = "postgres" /\ postgres_pool

\* list_submissions whose except branch returns an empty list instead of the
\* in-memory slice.
list_submissions_empty_on_failure(limit, ok, p, q) ==
    LET cur == CurrentStorage
    IN IF cur = "supabase" /\ supabase
       THEN IF ok THEN FirstN(Listed(supabase_table, p, "supabase", FALSE), limit)
            ELSE <<>>
       ELSE IF cur = "postgres" /\ postgres_pool
       THEN IF ok THEN FirstN(Listed(postgres_table, q, "postgres", TRUE), limit)
            ELSE <<>>
       ELSE MemorySlice(limit)

\* main.list_submissions(limit): ok is whether the store answers, p the order
\* the hosted table returns, q the order the relational table returns
list_submissions(limit, ok, p, q) ==
    LET cur == CurrentStorage
    IN IF cur = "supabase" /\ supabase
       THEN IF ok THEN FirstN(Listed(supabase_table, p, "supabase", FALSE), limit)
            ELSE MemorySlice(limit)
       ELSE IF cur = "postgres" /\ postgres_pool
       THEN IF ok THEN FirstN(Listed(postgres_table, q, "postgres", TRUE), limit)
            ELSE MemorySlice(limit)
       ELSE MemorySlice(limit)

\* main_sheets.count_submissions_db() / list_submissions_db(limit)
count_submissions_db_sheets == Len(in_memory_storage)

list_submissions_db_sheets(limit) == MemorySlice(limit)

\* main_supabase.count_submissions_db() / list_submissions_db(limit)
count_submissions_db_supabase(ok) == IF ok THEN Len(supabase_table) ELSE 0

list_submissions_db_supabase(limit, ok, p) ==
    IF ok THEN FirstN(Listed(supabase_table, p, "supabase", FALSE), limit) ELSE <<>>

\* "google_sheets" if GOOGLE_SHEETS_API_KEY else "memory_fallback"
SheetsStorageName == IF cfg.gs_key THEN "google_sheets" ELSE "memory_fallback"

\* ------------------------------------------------------------- inputs
ValidName == Str(<<" ", "A", "l", " ">>)
ValidEmail == Str(<<"A", "@", "b">>)
ValidAnswer == Str(<<"h", "e", "l", "l", "o">>)
ClientStamp == Str(<<"T", "2">>)

Json(n, e, a, t) ==
    [shape |-> "json", payload |-> [name |-> n, email |-> e, answer |-> a, timestamp |-> t]]

\* The bodies of an ordinary run: a valid one without and one with a client
\* timestamp, and the spec's three-error scenario.
RunBodies ==
    {Json(ValidName, ValidEmail, ValidAnswer, Missing),
     Json(ValidName, ValidEmail, ValidAnswer, ClientStamp),
     Json(Str(<<"A">>), Str(<<"b", "a", "d">>), Str(<<"h", "i">>), Missing)}

NameInputs == {Missing, Null, Arr, Num(<<"7">>), Str(<<>>), Str(<<" ", " ", " ">>),
               Str(<<"A">>), Str(<<" ", "A", " ">>), ValidName}
EmailInputs == {Missing, Null, Str(<<>>), Str(<<"b", "a", "d">>), ValidEmail}
AnswerInputs == {Missing, Str(<<>>), Str(<<"h", "i">>),
                 Str(<<" ", "h", "i", " ", " ", " ">>), Num(<<"1", "2", "3", "4">>),
                 ValidAnswer}
StampInputs == {Missing, Arr, Str(<<>>), ClientStamp}

\* Every body the validator is checked on: each field ranges over its inputs
\* while the other fields are each passing or failing.
AllBodies ==
    LET n2 == {Str(<<"A">>), ValidName}
        e2 == {Str(<<"b", "a", "d">>), ValidEmail}
        a2 == {Str(<<"h", "i">>), ValidAnswer}
        t2 == {Missing, ClientStamp}
    IN {Json(n, e, a, t) : n \in NameInputs, e \in e2, a \in a2, t \in t2}
       \cup {Json(n, e, a, t) : n \in n2, e \in EmailInputs, a \in a2, t \in t2}
       \cup {Json(n, e, a, t) : n \in n2, e \in e2, a \in AnswerInputs, t \in t2}
       \cup {Json(n, e, a, t) : n \in n2, e \in e2, a \in a2, t \in StampInputs}
       \cup {[shape |-> "form",
              payload |-> [name |-> n, email |-> e, answer |-> a, timestamp |-> Missing]] :
                n \in {Missing, Str(<<"A">>), ValidName}, e \in {Missing, ValidEmail},
                a \in {Str(<<"h", "i">>), ValidAnswer}}
       \cup {[shape |-> "nonobject", payload |-> EmptyPayload],
             [shape |-> "garbage", payload |-> EmptyPayload]}

\* The deployments of an ordinary run: main.py with each backend configured and
\* reachable, with STORAGE_BACKEND unset, with postgres configured and its pool
\* failing; main_sheets.py with and without credentials; main_supabase.py.
RunConfigs ==
    {<<"main", Config("supabase", TRUE, FALSE, FALSE)>>,
     <<"main", Config("sheets", FALSE, TRUE, FALSE)>>,
     <<"main", Config("postgres", FALSE, FALSE, TRUE)>>,
     <<"main", Config("memory", FALSE, FALSE, FALSE)>>,
     <<"main", Config("unset", TRUE, TRUE, FALSE)>>,
     <<"main", [Config("postgres", FALSE, FALSE, TRUE) EXCEPT !.pg_ok = FALSE]>>,
     <<"sheets", Config("sheets", FALSE, TRUE, FALSE)>>,
     <<"sheets", Config("sheets", FALSE, FALSE, FALSE)>>,
     <<"supabase", Config("supabase", TRUE, FALSE, FALSE)>>}

\* ---------------------------------------------------------------- Init
\* The state when the module has been imported: empty stores, no client, no
\* selection yet.
InitWith(deployments) ==
    /\ \E d \in deployments : app = d[1] /\ cfg = d[2]
    /\ phase = "init"
    /\ storage_backend = "unset"
    /\ supabase = FALSE
    /\ postgres_pool = FALSE
    /\ in_memory_storage = <<>>
    /\ supabase_table = <<>>
    /\ sheet_rows = <<>>
    /\ postgres_table = <<>>
    /\ now = 0
    /\ inflight = <<>>
    /\ req = NoBody
    /\ resp = Response("none", 0)
    /\ call = NoCall
    /\ nOk = 0

Init == InitWith(RunConfigs)

stores == <<in_memory_storage, supabase_table, sheet_rows, postgres_table>>
selection == <<app, cfg, phase, storage_backend, supabase, postgres_pool>>

\* Rows written and writes under way, against MaxSubs.
Load == Len(in_memory_storage) + Len(supabase_table) + Len(sheet_rows)
        + Len(postgres_table) + Len(inflight)

Remove(s, i) == SubSeq(s, 1, i - 1) \o SubSeq(s, i + 1, Len(s))

\* ------------------------------------------------------------- startup
\* on_startup storing the backend the environment asks for instead of the one
\* init_storage returns.
on_startup_requested ==
    /\ phase = "init"
    /\ CASE app = "main" ->
              LET r == init_storage(cfg)
              IN /\ storage_backend' = STORAGE_BACKEND(cfg)
                 /\ supabase' = r.supabase
                 /\ postgres_pool' = r.postgres_pool
                 /\ phase' = "serving"
         [] app = "sheets" ->
              /\ phase' = "serving"
              /\ UNCHANGED <<storage_backend, supabase, postgres_pool>>
         [] OTHER ->
              /\ supabase' = init_supabase(cfg)
              /\ phase' = IF init_supabase(cfg) THEN "serving" ELSE "failed"
              /\ UNCHANGED <<storage_backend, postgres_pool>>
    /\ UNCHANGED <<app, cfg, stores, now, inflight, req, resp, call, nOk>>

\* The startup hook of the app that serves.
on_startup ==
    /\ phase = "init"
    /\ CASE app = "main" ->
              LET r == init_storage(cfg)
              IN /\ storage_backend' = r.backend
                 /\ supabase' = r.supabase
                 /\ postgres_pool' = r.postgres_pool
                 /\ phase' = "serving"
         [] app = "sheets" ->
              /\ phase' = "serving"
              /\ UNCHANGED <<storage_backend, supabase, postgres_pool>>
         [] OTHER ->
              /\ supabase' = init_supabase(cfg)
              /\ phase' = IF init_supabase(cfg) THEN "serving" ELSE "failed"
              /\ UNCHANGED <<storage_backend, postgres_pool>>
    /\ UNCHANGED <<app, cfg, stores, now, inflight, req, resp, call, nOk>>

\* ------------------------------------------------------- POST /submit
\* Rejected with the handler storing what it received in memory before it
\* validates.
Rejected_after_store(body, errs) ==
    /\ resp' = [Response("submit", 422) EXCEPT !.errors = errs]
    /\ req' = body
    /\ in_memory_storage' =
          Append(in_memory_storage, MemRecord(ContestSubmission(ParseBody(body)), now))
    /\ UNCHANGED <<selection, supabase_table, sheet_rows, postgres_table, now,
                   inflight, call, nOk>>

\* The HTTP 422 of a payload the validator rejects.
Rejected(body, errs) ==
    /\ resp' = [Response("submit", 422) EXCEPT !.errors = errs]
    /\ req' = body
    /\ UNCHANGED <<selection, stores, now, inflight, call, nOk>>

\* Answered with the message naming the store the record went to: "memory"
\* when the call fell back.
Answered_actual_store(body, r, storage) ==
    /\ resp' = IF r.exc THEN Response("submit", 500)
               ELSE [Response("submit", 200) EXCEPT
                        !.id = r.id,
                        !.storage = IF r.call.mem THEN "memory" ELSE storage]
    /\ req' = body
    /\ call' = r.call
    /\ nOk' = IF r.exc THEN nOk ELSE nOk + 1
    /\ now' = r.last

\* The response once insert_submission has returned or raised.
Answered(body, r, storage) ==
    /\ resp' = IF r.exc THEN Response("submit", 500)
               ELSE [Response("submit", 200) EXCEPT !.id = r.id, !.storage = storage]
    /\ req' = body
    /\ call' = r.call
    /\ nOk' = IF r.exc THEN nOk ELSE nOk + 1
    /\ now' = r.last

\* Stamped with the server's time written over whatever the client sent.
Stamped_always(payload, t0) ==
    [ContestSubmission(payload) EXCEPT !.timestamp = Some(Iso(t0))]

\* `if not submission.timestamp: submission.timestamp = datetime.now().isoformat()`
Stamped(payload, t0) ==
    LET v == ContestSubmission(payload)
    IN IF Truthy(v.timestamp) THEN v ELSE [v EXCEPT !.timestamp = Some(Iso(t0))]

NeedsStamp(payload) == ~Truthy(ContestSubmission(payload).timestamp)

\* A spreadsheet append is sent and the task suspends at `await client.post`.
Suspended(body, data, t1) ==
    /\ Len(inflight) < MaxInflight
    /\ inflight' = Append(inflight, [body |-> body, data |-> data, t |-> t1])
    /\ now' = t1
    /\ UNCHANGED <<selection, stores, req, resp, call, nOk>>

\* main.submit_contest_entry, for a body of `bodies`; cap bounds the run
submit_contest_entry(bodies, cap) ==
    /\ app = "main" /\ phase = "serving"
    /\ \E body \in bodies :
         LET payload == ParseBody(body)
             errs == ValidationErrors(payload)
         IN IF errs # <<>> THEN Rejected(body, errs)
            ELSE /\ Load < cap
                 /\ \E t0 \in Reads(now) :
                      /\ NeedsStamp(payload) \/ t0 = now
                      /\ IF CurrentStorage = "sheets" /\ SheetsConfigured
                         THEN \E t1 \in Reads(t0) : Suspended(body, Stamped(payload, t0), t1)
                         ELSE \E t1 \in Reads(t0), out \in WriteOutcomes :
                              \E t2 \in Reads(t1) :
                                LET r == insert_submission(Stamped(payload, t0), t1, t2, out)
                                IN /\ r.call.adapter = "memory" => out = "ok"
                                   /\ r.call.aid = <<>> /\ r.call.adapter # "memory"
                                         => t1 = t0 /\ out = "fail"
                                   /\ ~r.call.mem \/ r.call.adapter = "memory" => t2 = t1
                                   /\ r.call.adapter = "supabase" /\ r.call.wrote
                                         => ~HasId(supabase_table, r.call.aid)
                                   /\ in_memory_storage' = r.mem
                                   /\ supabase_table' = r.sb
                                   /\ postgres_table' = r.pg
                                   /\ Answered(body, r, CurrentStorage)
                                   /\ UNCHANGED <<selection, sheet_rows, inflight>>

\* main_sheets.submit_contest_entry, for a body of `bodies`
submit_contest_entry_sheets(bodies, cap) ==
    /\ app = "sheets" /\ phase = "serving"
    /\ \E body \in bodies :
         LET payload == ParseBody(body)
             errs == ValidationErrors(payload)
         IN IF errs # <<>> THEN Rejected(body, errs)
            ELSE /\ Load < cap
                 /\ \E t0 \in Reads(now) :
                      /\ NeedsStamp(payload) \/ t0 = now
                      /\ \E t1 \in Reads(t0) :
                           IF SheetsConfigured
                           THEN Suspended(body, Stamped(payload, t0), t1)
                           ELSE LET m == insert_submission_memory(Stamped(payload, t0), t1)
                                    r == [id |-> m.id, exc |-> FALSE, last |-> t1,
                                          call |-> [adapter |-> "sheets", raised |-> FALSE,
                                                    wrote |-> FALSE, mem |-> TRUE,
                                                    aid |-> <<>>, mid |-> m.id]]
                                IN /\ in_memory_storage' = m.store
                                   /\ Answered(body, r, "")
                                   /\ UNCHANGED <<selection, supabase_table, sheet_rows,
                                                  postgres_table, inflight>>

\* The spreadsheet POST of suspended task i returns or raises, and the task runs
\* to its response (main.py with sheets selected, or main_sheets.py).
sheets_post_returns ==
    /\ phase = "serving"
    /\ \E i \in 1..Len(inflight), out \in WriteOutcomes :
       \E t2 \in Reads(now) :
         LET task == inflight[i]
             r == IF app = "main" THEN insert_submission_resumed(task, t2, out)
                  ELSE insert_submission_sheets_resumed(task, t2, out)
         IN /\ r.last = t2 \/ t2 = now
            /\ in_memory_storage' = r.mem
            /\ sheet_rows' = r.sheet
            /\ inflight' = Remove(inflight, i)
            /\ Answered(task.body, r, IF app = "main" THEN CurrentStorage ELSE "")
            /\ UNCHANGED <<selection, supabase_table, postgres_table>>

\* main_supabase.submit_contest_entry, for a body of `bodies`
submit_contest_entry_supabase(bodies, cap) ==
    /\ app = "supabase" /\ phase = "serving"
    /\ \E body \in bodies :
         LET payload == ParseBody(body)
             errs == ValidationErrors(payload)
         IN IF errs # <<>> THEN Rejected(body, errs)
            ELSE /\ Load < cap
                 /\ \E t0 \in Reads(now) :
                      /\ NeedsStamp(payload) \/ t0 = now
                      /\ \E t1 \in Reads(t0), out \in WriteOutcomes :
                           LET r == insert_submission_supabase_app(Stamped(payload, t0), t1, out)
                           IN /\ r.call.wrote => ~HasId(supabase_table, r.id)
                              /\ supabase_table' = r.sb
                              /\ Answered(body, r, "")
                              /\ UNCHANGED <<selection, in_memory_storage, sheet_rows,
                                             postgres_table, inflight>>

\* ------------------------------------------------------ read endpoints
ReadOnly == UNCHANGED <<selection, stores, now, inflight, req, call, nOk>>

\* main: GET /submissions/count
get_submission_count ==
    /\ app = "main" /\ phase = "serving"
    /\ \E ok \in BOOLEAN :
         resp' = [Response("count", 200) EXCEPT !.total = count_submissions(ok),
                                                !.storage = CurrentStorage,
                                                !.failed = Probed /\ ~ok]
    /\ ReadOnly

\* main: GET /submissions/backup
get_backup_submissions ==
    /\ app = "main" /\ phase = "serving"
    /\ \E ok \in BOOLEAN, p \in DescOrders(supabase_table), q \in DescOrders(postgres_table) :
         LET subs == list_submissions(DEFAULT_LIMIT, ok, p, q)
         IN resp' = [Response("backup", 200) EXCEPT !.total = Len(subs), !.subs = subs,
                                                    !.storage = CurrentStorage,
                                                    !.limit = DEFAULT_LIMIT,
                                                    !.failed = Probed /\ ~ok]
    /\ ReadOnly

\* main: GET /health
health_check ==
    /\ app = "main" /\ phase = "serving"
    /\ \E ok \in BOOLEAN :
         LET probed == \/ CurrentStorage = "supabase" /\ supabase
                       \/ CurrentStorage = "postgres" /\ postgres_pool
         IN resp' = [Response("health", 200) EXCEPT
                        !.db = IF probed /\ ~ok THEN "disconnected" ELSE "connected",
                        !.storage = CurrentStorage]
    /\ ReadOnly

\* main_sheets: GET /submissions/count and GET /submissions/backup
get_submission_count_sheets ==
    /\ app = "sheets" /\ phase = "serving"
    /\ resp' = [Response("count", 200) EXCEPT !.total = count_submissions_db_sheets,
                                              !.storage = SheetsStorageName]
    /\ ReadOnly

get_backup_submissions_sheets ==
    /\ app = "sheets" /\ phase = "serving"
    /\ LET subs == list_submissions_db_sheets(DEFAULT_LIMIT)
       IN resp' = [Response("backup", 200) EXCEPT !.total = Len(subs), !.subs = subs,
                                                  !.storage = SheetsStorageName,
                                                  !.limit = DEFAULT_LIMIT]
    /\ ReadOnly

\* main_supabase: GET /submissions/count and GET /submissions/backup
get_submission_count_supabase ==
    /\ app = "supabase" /\ phase = "serving"
    /\ \E ok \in BOOLEAN :
         resp' = [Response("count", 200) EXCEPT !.total = count_submissions_db_supabase(ok),
                                                !.storage = "supabase",
                                                !.failed = ~ok]
    /\ ReadOnly

get_backup_submissions_supabase ==
    /\ app = "supabase" /\ phase = "serving"
    /\ \E ok \in BOOLEAN, p \in DescOrders(supabase_table) :
         LET subs == list_submissions_db_supabase(DEFAULT_LIMIT, ok, p)
         IN resp' = [Response("backup", 200) EXCEPT !.total = Len(subs), !.subs = subs,
                                                    !.storage = "supabase",
                                                    !.limit = DEFAULT_LIMIT,
                                                    !.failed = ~ok]
    /\ ReadOnly

\* A direct call list(limit) of the serving app's listing function.
list_call ==
    /\ phase = "serving"
    /\ \E limit \in 0..MaxLimit, ok \in BOOLEAN,
          p \in DescOrders(supabase_table), q \in DescOrders(postgres_table) :
         LET subs == CASE app = "main" -> list_submissions(limit, ok, p, q)
                       [] app = "sheets" -> list_submissions_db_sheets(limit)
                       [] OTHER -> list_submissions_db_supabase(limit, ok, p)
         IN resp' = [Response("list", 0) EXCEPT !.total = Len(subs), !.subs = subs,
                                                !.limit = limit,
                                                !.failed = IF app = "main" THEN Probed /\ ~ok
                                                           ELSE app = "supabase" /\ ~ok]
    /\ ReadOnly

\* ---------------------------------------------------------------- Next
Next ==
    \/ on_startup
    \/ submit_contest_entry(RunBodies, MaxSubs)
    \/ submit_contest_entry_sheets(RunBodies, MaxSubs)
    \/ submit_contest_entry_supabase(RunBodies, MaxSubs)
    \/ sheets_post_returns
    \/ get_submission_count
    \/ get_backup_submissions
    \/ health_check
    \/ get_submission_count_sheets
    \/ get_backup_submissions_sheets
    \/ get_submission_count_supabase
    \/ get_backup_submissions_supabase
    \/ list_call

Spec == Init /\ [][Next]_vars

\* The startup selection over every configuration.
SelectConfigs == {<<a, c>> : a \in {"main", "sheets", "supabase"}, c \in AllConfigs}

InitSelect == InitWith(SelectConfigs)

SpecSelect == InitSelect /\ [][on_startup]_vars

\* The validator over every body, in one deployment of each app.
ValidateConfigs ==
    {<<"main", Config("memory", FALSE, FALSE, FALSE)>>,
     <<"sheets", Config("sheets", FALSE, FALSE, FALSE)>>,
     <<"supabase", Config("supabase", TRUE, FALSE, FALSE)>>}

InitValidate == InitWith(ValidateConfigs)

NextValidate ==
    \/ on_startup
    \/ submit_contest_entry(AllBodies, MaxValidated)
    \/ submit_contest_entry_sheets(AllBodies, MaxValidated)
    \/ submit_contest_entry_supabase(AllBodies, MaxValidated)
    \/ get_backup_submissions

SpecValidate == InitValidate /\ [][NextValidate]_vars

\* ------------------------------------------------- test_storage.py
\* test_storage_backend(): the script imports backend.main (no server is
\* started, so the startup hook never runs), calls init_storage(), then
\* insert_submission(ContestSubmission(**test_submission)), then
\* count_submissions(), and prints the backend init_storage returned as the
\* active one. phase is the script's position.
test_submission == Json(ValidName, ValidEmail, ValidAnswer, ClientStamp)

\* storage_backend = init_storage(): the script's local variable; the module
\* globals are set, app.state is not.
test_init_storage ==
    /\ app = "main" /\ phase = "init"
    /\ LET r == init_storage(cfg)
       IN /\ supabase' = r.supabase
          /\ postgres_pool' = r.postgres_pool
          /\ resp' = [Response("init_storage", 0) EXCEPT !.storage = r.backend]
    /\ phase' = "initialised"
    /\ UNCHANGED <<app, cfg, storage_backend, stores, now, inflight, req, call, nOk>>

\* submission_id = await insert_submission(submission)
test_insert_submission ==
    /\ app = "main" /\ phase = "initialised"
    /\ ~(CurrentStorage = "sheets" /\ SheetsConfigured)
    /\ \E t1 \in Reads(now), out \in WriteOutcomes :
       \E t2 \in Reads(t1) :
         LET r == insert_submission(ContestSubmission(ParseBody(test_submission)), t1, t2, out)
         IN /\ r.call.adapter = "memory" => out = "ok"
            /\ r.call.aid = <<>> /\ r.call.adapter # "memory" => out = "fail"
            /\ ~r.call.mem \/ r.call.adapter = "memory" => t2 = t1
            /\ r.call.adapter = "supabase" /\ r.call.wrote
                  => ~HasId(supabase_table, r.call.aid)
            /\ in_memory_storage' = r.mem
            /\ supabase_table' = r.sb
            /\ postgres_table' = r.pg
            /\ resp' = [Response("insert_submission", 0) EXCEPT
                           !.id = r.id, !.storage = init_storage(cfg).backend]
            /\ req' = test_submission
            /\ call' = r.call
            /\ nOk' = nOk + 1
            /\ now' = r.last
    /\ phase' = "inserted"
    /\ UNCHANGED <<app, cfg, storage_backend, supabase, postgres_pool, sheet_rows, inflight>>

\* count = count_submissions(), then "Active storage method: {storage_backend}"
test_count_submissions ==
    /\ app = "main" /\ phase = "inserted"
    /\ \E ok \in BOOLEAN :
         resp' = [Response("count_submissions", 0) EXCEPT
                     !.total = count_submissions(ok),
                     !.storage = init_storage(cfg).backend,
                     !.failed = Probed /\ ~ok]
    /\ phase' = "counted"
    /\ UNCHANGED <<app, cfg, storage_backend, supabase, postgres_pool, stores, now,
                   inflight, req, call, nOk>>

\* The script under every configuration of main.py.
TestConfigs == {<<"main", c>> : c \in AllConfigs}

InitTest == InitWith(TestConfigs)

NextTest ==
    \/ test_init_storage
    \/ test_insert_submission
    \/ test_count_submissions

SpecTest == InitTest /\ [][NextTest]_vars

\* ===================================================================
\* Properties
\* ===================================================================
InMemoryListing == MemorySlice(DEFAULT_LIMIT)

\* The submission the last handled body validates to, the timestamp aside.
ReqSubmission == ContestSubmission(ParseBody(req))

\* C1: in main.py, when the selected adapter's insert raises during a valid
\* POST /submit, the response is HTTP 200, the id returned is the one the
\* in-memory adapter generated, and the in-memory listing holds the record
\* under that id.
C1_FallbackStoresInMemory ==
    (app = "main" /\ resp.op = "submit" /\ resp.status # 422 /\ call.raised) =>
        /\ resp.status = 200
        /\ call.mem
        /\ resp.id = call.mid
        /\ \E i \in 1..Len(InMemoryListing) :
             /\ InMemoryListing[i].id = resp.id
             /\ InMemoryListing[i].name = ReqSubmission.name
             /\ InMemoryListing[i].email = ReqSubmission.email
             /\ InMemoryListing[i].answer = ReqSubmission.answer
             /\ InMemoryListing[i].storage_method = "memory"

C1_Witness ==
    /\ app = "main" /\ resp.op = "submit" /\ resp.status = 200
    /\ call.raised /\ call.adapter = "supabase"
    /\ call.aid # <<>> /\ call.aid # call.mid
    /\ Len(in_memory_storage) = 1

\* C2 (as amended): in main.py and main_sheets.py a storage failure during a
\* valid POST /submit is answered HTTP 200; in main_supabase.py, which has no
\* in-memory fallback, it is answered HTTP 500.
C2_SwallowedWhereFallbackExists ==
    (resp.op = "submit" /\ resp.status # 422 /\ call.raised) =>
        /\ app \in {"main", "sheets"} => resp.status = 200
        /\ app = "supabase" => resp.status = 500

C2_Witness ==
    /\ app = "sheets" /\ resp.op = "submit" /\ resp.status = 200
    /\ call.raised /\ call.mem

\* C2 as claimed: in every app variant a storage failure during a valid
\* POST /submit is never answered HTTP 500.
C2_NeverSurfaced ==
    (resp.op = "submit" /\ call.raised) => resp.status # 500

\* C3: when name, email or answer is missing or breaks its rule, POST /submit
\* answers HTTP 422 with exactly one error entry for each failing field and
\* none for a field that passes.
C3_Breaks(f, fv) ==
    \/ fv.k \in {"missing", "null", "list"}
    \/ f = "name" /\ (Strip(fv.v) = <<>> \/ Len(Strip(fv.v)) < 2)
    \/ f = "email" /\ (fv.v = <<>> \/ \A i \in 1..Len(fv.v) : fv.v[i] # "@")
    \/ f = "answer" /\ (Strip(fv.v) = <<>> \/ Len(Strip(fv.v)) < 5)

C3_Entries(f) == Cardinality({i \in 1..Len(resp.errors) : resp.errors[i].loc = f})

C3_ExactFieldErrors ==
    resp.op = "submit" =>
        LET payload == ParseBody(req)
            ruled == {"name", "email", "answer"}
        IN (\E f \in ruled : C3_Breaks(f, payload[f])) =>
              /\ resp.status = 422
              /\ \A f \in ruled :
                   C3_Entries(f) = IF C3_Breaks(f, payload[f]) THEN 1 ELSE 0
              /\ C3_Entries("timestamp") = IF payload.timestamp.k = "list" THEN 1 ELSE 0
              /\ \A i \in 1..Len(resp.errors) : resp.errors[i].loc \in ruled \cup {"timestamp"}

C3_Witness ==
    /\ resp.op = "submit" /\ resp.status = 422
    /\ req = Json(Str(<<"A">>), Str(<<"b", "a", "d">>), Str(<<"h", "i">>), Missing)
    /\ Len(resp.errors) = 3

\* C4: with memory selected in main.py, GET /submissions/count returns the
\* number of POST /submit calls answered 200 so far.
C4_CountIsN ==
    (app = "main" /\ storage_backend = "memory" /\ resp.op = "count") =>
        resp.total = nOk

C4_Witness ==
    /\ app = "main" /\ storage_backend = "memory" /\ resp.op = "count"
    /\ resp.total = 2 /\ nOk = 2

\* C5 as claimed: main.py's GET /submissions/backup returns the submissions with
\* timestamps non-increasing, whatever store serves the list.
C5_BackupNewestFirst ==
    (app = "main" /\ resp.op = "backup") =>
        \A i \in 1..Len(resp.subs) : i < Len(resp.subs) =>
            StrLeq(resp.subs[i + 1].timestamp, resp.subs[i].timestamp)

\* C6 as claimed: list(limit) returns at most `limit` records.
C6_AtMostLimit ==
    resp.op \in {"list", "backup"} => Len(resp.subs) <= resp.limit

\* C7: main.init_storage never raises and returns supabase, sheets or postgres
\* exactly when that backend is configured, its library and credentials are
\* present and its construction succeeds, and memory in every other case.
C7_SelectionIsTotal ==
    (app = "main" /\ phase # "init") =>
        LET b == STORAGE_BACKEND(cfg)
            sb == b = "supabase" /\ cfg.sb_lib /\ cfg.sb_url /\ cfg.sb_key /\ cfg.sb_ok
            gs == b = "sheets" /\ cfg.gs_key /\ cfg.gs_id
            pg == b = "postgres" /\ cfg.pg_lib /\ cfg.db_url /\ cfg.pg_ok
        IN /\ phase = "serving"
           /\ (storage_backend = "supabase") <=> sb
           /\ (storage_backend = "sheets") <=> gs
           /\ (storage_backend = "postgres") <=> pg
           /\ (storage_backend = "memory") <=> ~(sb \/ gs \/ pg)
           /\ storage_backend \in {b, "memory"}
           /\ supabase <=> sb
           /\ postgres_pool <=> pg

C7_Witness ==
    /\ app = "main" /\ phase = "serving" /\ storage_backend = "memory"
    /\ STORAGE_BACKEND(cfg) = "postgres" /\ cfg.pg_lib /\ cfg.db_url /\ ~cfg.pg_ok

\* C8 as claimed: with STORAGE_BACKEND unset, main.py selects memory.
C8_UnsetSelectsMemory ==
    (app = "main" /\ phase = "serving" /\ cfg.backend = "unset") =>
        storage_backend = "memory"

\* C9 as claimed: in main.py two structurally identical submissions are stored
\* as two records with distinct ids.
C9_DistinctIds ==
    \A i, j \in 1..Len(in_memory_storage) :
        (/\ app = "main"
         /\ i < j
         /\ in_memory_storage[i].name = in_memory_storage[j].name
         /\ in_memory_storage[i].email = in_memory_storage[j].email
         /\ in_memory_storage[i].answer = in_memory_storage[j].answer
         /\ in_memory_storage[i].timestamp = in_memory_storage[j].timestamp)
        => in_memory_storage[i].id # in_memory_storage[j].id

\* C10 as claimed: the id a successful POST /submit returns is the id of a
\* stored record.
C10_ReturnedIdIsStored ==
    (resp.op = "submit" /\ resp.status = 200) =>
        \/ HasId(in_memory_storage, resp.id)
        \/ HasId(supabase_table, resp.id)
        \/ HasId(sheet_rows, resp.id)
        \/ HasId(postgres_table, resp.id)

\* C11: in main.py, when the selected adapter (supabase or postgres) raises
\* during count or list, count returns the in-memory store's current length,
\* list returns the in-memory store's last `limit` entries, and
\* GET /submissions/count and GET /submissions/backup answer HTTP 200.
C11_Suffix(s, n) == IF n >= Len(s) THEN s ELSE SubSeq(s, Len(s) - n + 1, Len(s))

C12_UnparseableIsRejected ==
    (resp.op = "submit" /\ req.shape = "garbage") =>
        /\ resp.status = 422
        /\ resp.errors = <<[loc |-> "name", type |-> "value_error.missing"],
                           [loc |-> "email", type |-> "value_error.missing"],
                           [loc |-> "answer", type |-> "value_error.missing"]>>

C12_Witness ==
    /\ resp.op = "submit" /\ req.shape = "garbage" /\ resp.status = 422
    /\ app = "main" /\ Len(resp.errors) = 3

\* C12 as claimed: a POST /submit whose body parses in none of the three
\* accepted shapes is answered HTTP 500, not 422.
C12_UnparseableIs500 ==
    (resp.op = "submit" /\ req.shape = "garbage") => resp.status = 500

\* The stored records the last insert call wrote: those under the id its
\* adapter or its in-memory fallback generated.
C13_Written ==
    LET all == in_memory_storage \o supabase_table \o sheet_rows \o postgres_table
    IN {all[i].timestamp : i \in {j \in 1..Len(all) : all[j].id \in {call.aid, call.mid}}}

C13_ServerTimes == {Iso(t) : t \in 0..MaxClock}

C14_EchoesSelectedBackend ==
    (/\ app = "main"
     /\ \/ resp.op \in {"count", "backup", "health"}
        \/ resp.op = "submit" /\ resp.status = 200) =>
        /\ resp.storage = storage_backend
        /\ resp.storage = init_storage(cfg).backend

C14_Witness ==
    /\ app = "main" /\ resp.op = "submit" /\ resp.status = 200
    /\ call.raised /\ call.mem /\ ~call.wrote
    /\ resp.storage = "postgres"
    /\ postgres_table = <<>> /\ Len(in_memory_storage) = 1

\* C15: the active-backend selection is written once, by the startup hook (in
\* main.py: the backend init_storage returns), and no later submit, count,
\* list or health call changes it or the clients it selected, whether the
\* call succeeded or fell back.
C15_Step ==
    IF phase = "init"
    THEN phase' # "init" /\ app = "main" => storage_backend' = init_storage(cfg).backend
    ELSE UNCHANGED <<storage_backend, supabase, postgres_pool, phase, cfg, app>>

C15_SelectionWrittenOnce == [][C15_Step]_vars

\* Two calls fell back one after the other and supabase is still selected and
\* was still the adapter the second call attempted.
C15_Witness ==
    /\ app = "main" /\ storage_backend = "supabase" /\ nOk = 2
    /\ Len(in_memory_storage) = 2 /\ supabase_table = <<>>
    /\ call.adapter = "supabase" /\ call.raised

\* C16: in main.py one insert call attempts the selected adapter once and the
\* in-memory adapter at most once. Seen from the stores: the step that
\* completes an insert call adds at most one row to the selected store (one
\* exactly when the adapter's write went through) and none to the others, adds
\* one in-memory record exactly when memory is selected or the selected
\* adapter raised, and none otherwise; no other step adds a row.
C16_Grown(s, t) == Len(t) - Len(s)

C16_Step ==
    app = "main" =>
        IF nOk' = nOk + 1
        THEN LET sel == CurrentStorage
             IN /\ call'.adapter = sel
                /\ call'.mem <=> (sel = "memory" \/ call'.raised)
                /\ sel = "memory" => ~call'.raised /\ ~call'.wrote
                /\ C16_Grown(in_memory_storage, in_memory_storage')
                      = IF call'.mem THEN 1 ELSE 0
                /\ C16_Grown(supabase_table, supabase_table')
                      = IF sel = "supabase" /\ call'.wrote THEN 1 ELSE 0
                /\ C16_Grown(sheet_rows, sheet_rows')
                      = IF sel = "sheets" /\ call'.wrote THEN 1 ELSE 0
                /\ C16_Grown(postgres_table, postgres_table')
                      = IF sel = "postgres" /\ call'.wrote THEN 1 ELSE 0
        ELSE UNCHANGED stores

C16_SingleAttempt == [][C16_Step]_vars

C16_Witness ==
    /\ app = "main" /\ storage_backend = "supabase" /\ nOk = 1
    /\ call.adapter = "supabase" /\ call.raised /\ call.wrote /\ call.mem
    /\ Len(supabase_table) = 1 /\ Len(in_memory_storage) = 1

\* C17 as claimed: in main.py, after an insert call the record is in exactly
\* one store: the selected adapter's write went through or the in-memory
\* adapter appended it, never both and never neither.
C17_ExactlyOneStore ==
    (app = "main" /\ resp.op = "submit" /\ resp.status = 200) =>
        /\ call.wrote \/ call.mem
        /\ ~(call.wrote /\ call.mem)

\* C18 as claimed: in main.py with the spreadsheet backend selected, count
\* returns the number of submissions persisted so far and list returns them:
\* after N spreadsheet inserts answered 200, count returns N and the backup
\* holds N records.
C18_SheetsCountIsN ==
    (app = "main" /\ storage_backend = "sheets" /\ inflight = <<>>) =>
        /\ resp.op = "count" => resp.total = nOk
        /\ resp.op = "backup" => Len(resp.subs) = nOk

\* C19: with POST /submit tasks interleaved at their I/O boundaries, every
\* in-memory insert that completes (a direct memory write or a fallback)
\* appends exactly its own record to the in-memory store and leaves the
\* records of the other tasks in place, and no other step changes the store:
\* the store's length is the number of in-memory inserts completed.
C19_Step ==
    IF nOk' = nOk + 1 /\ call'.mem
    THEN /\ Len(in_memory_storage') = Len(in_memory_storage) + 1
         /\ SubSeq(in_memory_storage', 1, Len(in_memory_storage)) = in_memory_storage
         /\ in_memory_storage'[Len(in_memory_storage')].id = call'.mid
         /\ in_memory_storage'[Len(in_memory_storage')].id = resp'.id
    ELSE in_memory_storage' = in_memory_storage

C19_AppendsAreAtomic == [][C19_Step]_vars

\* A fallback's record was appended while another task, suspended at its
\* spreadsheet POST since before that append, is still under way.
C19_Witness ==
    /\ app = "main" /\ storage_backend = "sheets"
    /\ Len(inflight) = 1 /\ Len(in_memory_storage) = 1
    /\ call.adapter = "sheets" /\ call.mem
    /\ \E u \in 0..MaxClock :
         /\ in_memory_storage[1].id = SubId(u)
         /\ inflight[1].t < u

\* C20: the in-memory store is append-only: across every step of every
\* operation (submit, fallback, count, backup, list, health) the previous
\* contents are an unchanged prefix of the new contents, so no record is
\* updated, reordered or deleted and no record's id changes after its insert.
C20_Step ==
    /\ Len(in_memory_storage) <= Len(in_memory_storage')
    /\ SubSeq(in_memory_storage', 1, Len(in_memory_storage)) = in_memory_storage

C20_AppendOnly == [][C20_Step]_vars

\* The list holds two records and a listing has handed out a slice of it.
C20_Witness ==
    /\ app = "main" /\ Len(in_memory_storage) = 2
    /\ in_memory_storage[1] # in_memory_storage[2]
    /\ resp.op = "list" /\ resp.limit = 1 /\ resp.subs = <<in_memory_storage[2]>>

\* C21 as claimed: after init_storage() has returned backend B in
\* test_storage.py, the following insert_submission is attempted on B's
\* adapter and count_submissions counts B's records: the backend the script
\* reports as active is the one that performed the write.
C21_Records(b) ==
    CASE b = "supabase" -> Len(supabase_table)
      [] b = "sheets" -> Len(sheet_rows)
      [] b = "postgres" -> Len(postgres_table)
      [] OTHER -> Len(in_memory_storage)

C21_ReportedBackendWrote ==
    /\ phase \in {"inserted", "counted"} => call.adapter = resp.storage
    /\ phase = "counted" /\ ~resp.failed => resp.total = C21_Records(resp.storage)

\* C22: a POST /submit answered HTTP 422 invokes no adapter: the step that
\* produces the 422 leaves the in-memory store, every durable store, the
\* appends under way and the selection state unchanged, and reads no clock.
C22_Step ==
    (resp'.op = "submit" /\ resp'.status = 422 /\ <<resp', req'>> # <<resp, req>>) =>
        /\ UNCHANGED <<in_memory_storage, supabase_table, sheet_rows, postgres_table>>
        /\ UNCHANGED <<storage_backend, supabase, postgres_pool, phase, cfg, app>>
        /\ UNCHANGED <<inflight, call, nOk, now>>

C22_RejectedChangesNothing == [][C22_Step]_vars

\* A rejection answered after one submission was stored and while another is
\* suspended at its spreadsheet POST.
C22_Witness ==
    /\ app = "main" /\ resp.op = "submit" /\ resp.status = 422
    /\ Len(resp.errors) = 3
    /\ Len(inflight) = 1 /\ Len(sheet_rows) = 1 /\ nOk = 1
    /\ in_memory_storage = <<>>

\* C23: every record of the in-memory store is well formed: name trimmed and
\* of length >= 2, email lowercased and containing '@', answer trimmed and of
\* length >= 5, timestamp and id non-empty, storage_method "memory".
C23_WellFormed(r) ==
    /\ Strip(r.name) = r.name /\ Len(r.name) >= 2
    /\ Lower(r.email) = r.email /\ \E i \in 1..Len(r.email) : r.email[i] = "@"
    /\ Strip(r.answer) = r.answer /\ Len(r.answer) >= 5
    /\ r.timestamp # <<>>
    /\ r.id # <<>>
    /\ r.storage_method = "memory"

C23_StoredRecordsWellFormed ==
    \A i \in 1..Len(in_memory_storage) : C23_WellFormed(in_memory_storage[i])

\* A record stored from a body with a padded name, an uppercase email and an
\* empty timestamp.
C23_Witness ==
    /\ app = "main" /\ resp.op = "submit" /\ resp.status = 200
    /\ req = Json(ValidName, ValidEmail, ValidAnswer, Str(<<>>))
    /\ Len(in_memory_storage) = 1
    /\ in_memory_storage[1].name = <<"A", "l">>
    /\ in_memory_storage[1].email = <<"a", "@", "b">>
    /\ in_memory_storage[1].timestamp \in C13_ServerTimes

====
